---- MODULE Spec2Model ----
(***************************************************************************)
(* A model of wcr (src/src/lib.rs): the argument resolver (Config /        *)
(* get_args), the counting engine (count) and the driver (run) with its    *)
(* field formatting (format_field).                                        *)
(*                                                                         *)
(* Text is a sequence of Unicode codepoints.  An input stream is a         *)
(* run-length encoded text: a sequence of chunks [c |-> codepoint,         *)
(* n |-> repetitions], n >= 1, so that streams of 10^8 characters and      *)
(* more can be counted.  usize arithmetic is modelled on the naturals:     *)
(* a counter can only reach 2^64 after as many bytes have been read.       *)
(***************************************************************************)
EXTENDS Integers, Sequences, FiniteSets, TLC

VARIABLES
    args,     \* the four display flags as given on the command line
    files,    \* Config.files: the filenames, in order
    config,   \* the four display flags of the Config that run owns
    pc,       \* where the process is: get_args, run, loop, done, usage_error
    idx,      \* position of the for loop of run in files
    total,    \* total_lines, total_words, total_bytes, total_chars of run
    stdout,   \* the lines printed with println!
    stderr,   \* the lines printed with eprintln!
    result,   \* what run returned: "none" while running, then "Ok" or "Err"
    hist,     \* history: per filename visited, what the environment did to it
    input,    \* count: the stream handed to count (history)
    c         \* count: the reader and the locals of count

vars == <<args, files, config, pc, idx, total, stdout, stderr, result, hist, input, c>>

runVars == <<args, files, config, pc, idx, total, stdout, stderr, result, hist>>

----------------------------------------------------------------------------
(* Bounds *)

\* longest stream (in chunks) handed to count in SpecCount
MaxLen == 3

\* most filenames on the command line
MaxFiles == 2

\* the read_line call that fails is one of the first MaxFailAt (0: none fails)
MaxFailAt == 2

\* repetitions of the character of a long chunk
BigRep == 100000000

----------------------------------------------------------------------------
(* Characters and text *)

\* '\n', the terminator read_line stops after
LF == 10

\* ' '
SP == 32

\* the width of {:>8}
FieldWidth == 8

\* "-", the filename that stands for standard input
Dash == <<45>>

\* " total"
TotalSuffix == <<32, 116, 111, 116, 97, 108>>

\* char::is_whitespace, as used by str::split_whitespace: the White_Space property
IsWhitespace(ch) ==
    \/ ch \in 9..13
    \/ ch \in {32, 133, 160, 5760, 8232, 8233, 8239, 8287, 12288}
    \/ ch \in 8192..8202

\* char::len_utf8: the bytes of one codepoint in a String
Utf8Len(ch) ==
    IF ch < 128 THEN 1
    ELSE IF ch < 2048 THEN 2
    ELSE IF ch < 65536 THEN 3
    ELSE 4

RECURSIVE ByteLen(_)
\* str::len: the bytes of a text; what read_line returns for the text it appended
ByteLen(s) ==
    IF s = <<>> THEN 0
    ELSE Head(s).n * Utf8Len(Head(s).c) + ByteLen(Tail(s))

\* line.len() in the place of line.chars().count(): bytes, not codepoints
RECURSIVE CharsCountBytes(_)
CharsCountBytes(s) ==
    IF s = <<>> THEN 0
    ELSE Head(s).n * Utf8Len(Head(s).c) + CharsCountBytes(Tail(s))

RECURSIVE CharsCount(_)
\* line.chars().count(): the codepoints of a text
CharsCount(s) ==
    IF s = <<>> THEN 0
    ELSE Head(s).n + CharsCount(Tail(s))

RECURSIVE SplitScan(_, _)
\* the SplitWhitespace iterator: one item per maximal run of non-whitespace
SplitScan(s, inWord) ==
    IF s = <<>> THEN 0
    ELSE IF IsWhitespace(Head(s).c) THEN SplitScan(Tail(s), FALSE)
    ELSE (IF inWord THEN 0 ELSE 1) + SplitScan(Tail(s), TRUE)

\* line.split_whitespace().count()
SplitWhitespaceCount(s) == SplitScan(s, FALSE)

\* index of the first chunk of s holding a line terminator, 0 when none
FirstLF(s) ==
    IF \E i \in 1..Len(s) : s[i].c = LF
    THEN CHOOSE i \in 1..Len(s) : s[i].c = LF /\ \A j \in 1..(i - 1) : s[j].c # LF
    ELSE 0

\* BufRead::read_line: the text up to and including the next '\n', or all that
\* is left when there is none; taken is appended to the buffer, rest stays unread
ReadLine(s) ==
    LET i == FirstLF(s) IN
    IF i = 0 THEN [taken |-> s, rest |-> <<>>]
    ELSE [taken |-> SubSeq(s, 1, i - 1) \o <<[c |-> LF, n |-> 1]>>,
          rest  |-> (IF s[i].n > 1 THEN <<[c |-> LF, n |-> s[i].n - 1]>> ELSE <<>>)
                    \o SubSeq(s, i + 1, Len(s))]

----------------------------------------------------------------------------
(* count *)

\* struct FileInfo
FileInfo(l, w, b, m) ==
    [num_lines |-> l, num_words |-> w, num_bytes |-> b, num_chars |-> m]

ZeroInfo == FileInfo(0, 0, 0, 0)

\* count on entry: the four counters at 0, an empty line buffer
CountInit(stream) ==
    [file |-> stream, line |-> <<>>, status |-> "loop",
     num_lines |-> 0, num_words |-> 0, num_bytes |-> 0, num_chars |-> 0]

\* not running count
CountIdle == [CountInit(<<>>) EXCEPT !.status = "idle"]

\* a loop that never empties its buffer: read_line appends to what is there
LineClearKeeps(line) == line

\* line.clear()
LineClear(line) == <<>>

\* one iteration of the loop of count whose read_line succeeds
CountBody(st) ==
    LET r          == ReadLine(st.file)
        line       == st.line \o r.taken
        line_bytes == ByteLen(r.taken)
    IN  IF line_bytes = 0
        THEN [st EXCEPT !.status = "ok"]
        ELSE [file      |-> r.rest,
              line      |-> LineClear(line),
              status    |-> "loop",
              num_lines |-> st.num_lines + 1,
              num_words |-> st.num_words + SplitWhitespaceCount(line),
              num_bytes |-> st.num_bytes + line_bytes,
              num_chars |-> st.num_chars + CharsCount(line)]

\* a loop that takes a failed read for the end of the stream
CountErrSwallowed(st) == [st EXCEPT !.status = "ok"]

\* the ? on read_line: count returns the error, its counters are dropped
CountErr(st) == [st EXCEPT !.status = "err"]

\* the FileInfo that count builds from its counters
InfoOf(st) == FileInfo(st.num_lines, st.num_words, st.num_bytes, st.num_chars)

RECURSIVE CountLoop(_, _, _)
\* the loop of count from state st after reads calls of read_line; the call
\* number failAt fails (0: none does)
CountLoop(st, reads, failAt) ==
    IF st.status # "loop" THEN st
    ELSE IF reads + 1 = failAt THEN CountErr(st)
    ELSE CountLoop(CountBody(st), reads + 1, failAt)

\* count(file)
Count(stream, failAt) == CountLoop(CountInit(stream), 0, failAt)

----------------------------------------------------------------------------
(* format_field and the lines run prints *)

RECURSIVE Digits(_)
\* Display for usize: the decimal digits of value, most significant first
Digits(value) ==
    IF value < 10 THEN <<48 + value>>
    ELSE Digits(value \div 10) \o <<48 + (value % 10)>>

\* {:>w}: s right-justified, padded with spaces on the left up to width w;
\* a text longer than w is written whole
PadLeft(s, w) ==
    IF Len(s) >= w THEN s
    ELSE [i \in 1..(w - Len(s)) |-> SP] \o s

\* a format_field that ignores show
format_field_always(value, show) == PadLeft(Digits(value), FieldWidth)

\* format_field(value, show)
format_field(value, show) ==
    IF show THEN PadLeft(Digits(value), FieldWidth) ELSE <<>>

\* the four format_field arguments of a println! of run
FormatFields(info, cfg) ==
    << format_field(info.num_lines, cfg.lines),
       format_field(info.num_words, cfg.words),
       format_field(info.num_bytes, cfg.bytes),
       format_field(info.num_chars, cfg.chars) >>

\* the last argument of the per-file println!
NamePart(filename) == IF filename = Dash THEN <<>> ELSE <<SP>> \o filename

\* "{}{}{}{}{}" and "{}{}{}{} total": the fields side by side, then the suffix
PrintedLine(kind, info, cfg, suffix) ==
    LET f == FormatFields(info, cfg) IN
    [kind   |-> kind,
     vals   |-> info,
     fields |-> f,
     suffix |-> suffix,
     text   |-> f[1] \o f[2] \o f[3] \o f[4] \o suffix]

\* the Display of the io::Error of a failed File::open
\* "No such file or directory (os error 2)"
OsErrorText ==
    <<78, 111, 32, 115, 117, 99, 104, 32, 102, 105, 108, 101, 32, 111, 114, 32,
      100, 105, 114, 101, 99, 116, 111, 114, 121, 32, 40, 111, 115, 32, 101, 114,
      114, 111, 114, 32, 50, 41>>

\* eprintln!("{}", e)
DiagnosticNoName(filename, e) == e

\* eprintln!("{}: {}", filename, e)
Diagnostic(filename, e) == filename \o <<58, SP>> \o e

----------------------------------------------------------------------------
(* Config and get_args *)

Flags == [lines : BOOLEAN, words : BOOLEAN, bytes : BOOLEAN, chars : BOOLEAN]

NoFlags == [lines |-> FALSE, words |-> FALSE, bytes |-> FALSE, chars |-> FALSE]

\* bytes without its conflicts_with
NeverConflicts(a) == FALSE

\* conflicts_with = "chars" on bytes: clap rejects a command line giving both
ConflictsWith(a) == a.bytes /\ a.chars

\* Config::parse() in get_args: a Config, or the process exits with a usage error
GetArgs ==
    /\ pc = "get_args"
    /\ IF ConflictsWith(args)
       THEN pc' = "usage_error" /\ UNCHANGED config
       ELSE pc' = "run" /\ config' = args
    /\ UNCHANGED <<args, files, idx, total, stdout, stderr, result, hist, input, c>>

----------------------------------------------------------------------------
(* run *)

\* a defaulting that turns all four flags on
DefaultFlagsAll(cfg) ==
    IF cfg = NoFlags
    THEN [lines |-> TRUE, words |-> TRUE, bytes |-> TRUE, chars |-> TRUE]
    ELSE cfg

\* the head of run: with no flag set, lines, words and bytes are turned on
DefaultFlags(cfg) ==
    IF \A v \in {cfg.lines, cfg.words, cfg.bytes, cfg.chars} : v = FALSE
    THEN [cfg EXCEPT !.lines = TRUE, !.words = TRUE, !.bytes = TRUE]
    ELSE cfg

\* run up to its for loop
RunStart ==
    /\ pc = "run"
    /\ config' = DefaultFlags(config)
    /\ total' = ZeroInfo
    /\ idx' = 1
    /\ pc' = "loop"
    /\ UNCHANGED <<args, files, stdout, stderr, result, hist, input, c>>

\* open(filename): "-" is standard input and always opens; any other name
\* opens when the file system lets File::open succeed
Open(filename, fsOk) ==
    IF filename = Dash THEN "Ok"
    ELSE IF fsOk THEN "Ok" ELSE "Err"

\* open(filename)?: the first file that fails to open ends run with Err
OpenErrReturns == "return"

\* the Err(e) arm of the match on open: the loop goes on to the next filename
OpenErrFlow == "continue"

\* total_bytes += res.num_chars
AddTotalsCharsAsBytes(t, res) ==
    FileInfo(t.num_lines + res.num_lines, t.num_words + res.num_words,
             t.num_bytes + res.num_chars, t.num_chars + res.num_chars)

\* total_lines += res.num_lines; ... total_chars += res.num_chars
AddTotals(t, res) ==
    FileInfo(t.num_lines + res.num_lines, t.num_words + res.num_words,
             t.num_bytes + res.num_bytes, t.num_chars + res.num_chars)

\* the calls of read_line that a count of stream makes when none fails: one
\* per line terminator, one for a last unterminated line, one that returns 0
ReadsOf(stream) ==
    LET lfs == {i \in 1..Len(stream) : stream[i].c = LF} IN
    Cardinality(lfs)
      + (IF stream # <<>> /\ stream[Len(stream)].c # LF THEN 1 ELSE 0) + 1

\* what the environment does to a count of stream: it fails when the failing
\* call of read_line is one of those the count makes
EnvOutcome(stream, failAt) ==
    IF failAt \in 1..ReadsOf(stream) THEN "count_err" ELSE "ok"

\* an iteration of the for loop whose open fails
LoopOpenErr ==
    /\ pc = "loop"
    /\ idx <= Len(files)
    /\ Open(files[idx], FALSE) = "Err"
    /\ stderr' = Append(stderr, Diagnostic(files[idx], OsErrorText))
    /\ hist' = Append(hist, [name |-> files[idx], outcome |-> "open_err",
                             info |-> ZeroInfo])
    /\ IF OpenErrFlow = "continue"
       THEN idx' = idx + 1 /\ UNCHANGED <<pc, result>>
       ELSE pc' = "done" /\ result' = "Err" /\ UNCHANGED idx
    /\ UNCHANGED <<args, files, config, total, stdout, input, c>>

\* an iteration of the for loop whose open succeeds and whose count returns Ok
LoopCountOk(stream, failAt) ==
    /\ pc = "loop"
    /\ idx <= Len(files)
    /\ Open(files[idx], TRUE) = "Ok"
    /\ LET r == Count(stream, failAt) IN
       /\ r.status = "ok"
       /\ stdout' = Append(stdout, PrintedLine("file", InfoOf(r), config,
                                               NamePart(files[idx])))
       /\ total' = AddTotals(total, InfoOf(r))
       /\ hist' = Append(hist, [name |-> files[idx],
                                outcome |-> EnvOutcome(stream, failAt),
                                info |-> InfoOf(r)])
    /\ idx' = idx + 1
    /\ UNCHANGED <<args, files, config, pc, stderr, result, input, c>>

\* an iteration of the for loop whose open succeeds and whose count returns Err
LoopCountErr(stream, failAt) ==
    /\ pc = "loop"
    /\ idx <= Len(files)
    /\ Open(files[idx], TRUE) = "Ok"
    /\ LET r == Count(stream, failAt) IN
       /\ r.status = "err"
       /\ hist' = Append(hist, [name |-> files[idx],
                                outcome |-> EnvOutcome(stream, failAt),
                                info |-> InfoOf(r)])
    /\ idx' = idx + 1
    /\ UNCHANGED <<args, files, config, pc, total, stdout, stderr, result, input, c>>

\* config.files.len() > 0
TotalAlways(fs) == Len(fs) > 0

\* config.files.len() > 1
ShouldPrintTotal(fs) == Len(fs) > 1

\* run after its for loop: the total line, then Ok(())
RunFinish ==
    /\ pc = "loop"
    /\ idx > Len(files)
    /\ stdout' = IF ShouldPrintTotal(files)
                 THEN Append(stdout, PrintedLine("total", total, config, TotalSuffix))
                 ELSE stdout
    /\ pc' = "done"
    /\ result' = "Ok"
    /\ UNCHANGED <<args, files, config, idx, total, stderr, hist, input, c>>

----------------------------------------------------------------------------
(* The inputs *)

\* a text of single characters as a stream
Text(cps) == [i \in 1..Len(cps) |-> [c |-> cps[i], n |-> 1]]

\* the text of tests::test_count
\* "I don't want the world. I just want your half.\r\n"
TestText ==
    Text(<<73, 32, 100, 111, 110, 39, 116, 32, 119, 97, 110, 116, 32, 116, 104,
           101, 32, 119, 111, 114, 108, 100, 46, 32, 73, 32, 106, 117, 115, 116,
           32, 119, 97, 110, 116, 32, 121, 111, 117, 114, 32, 104, 97, 108, 102,
           46, 13, 10>>)

\* '\n', ' ', 'a', U+00E9 (2 bytes), U+3000 (3 bytes, whitespace)
Alphabet == {LF, SP, 97, 233, 12288}

\* a chunk: one character, or a long run of a character other than '\n'
Chunks ==
    {ch \in [c : Alphabet, n : {1, BigRep}] : ch.c = LF => ch.n = 1}

\* the streams count is checked on
CountStreams ==
    UNION {[1..k -> Chunks] : k \in 0..MaxLen} \cup {TestText}

\* the streams the files of a run hold: empty; "a é\n　a"; BigRep times 'a'
RunStreams ==
    { <<>>,
      Text(<<97, SP, 233, LF, 12288, 97>>),
      <<[c |-> 97, n |-> BigRep]>> }

\* the filenames of a run: "-" and "x"
Names == {Dash, <<120>>}

FileLists == UNION {[1..k -> Names] : k \in 1..MaxFiles}

----------------------------------------------------------------------------
(* The driver: get_args, then run *)

Init ==
    /\ args \in Flags
    /\ files \in FileLists
    /\ config = NoFlags
    /\ pc = "get_args"
    /\ idx = 0
    /\ total = ZeroInfo
    /\ stdout = <<>>
    /\ stderr = <<>>
    /\ result = "none"
    /\ hist = <<>>
    /\ input = <<>>
    /\ c = CountIdle

Next ==
    \/ GetArgs
    \/ RunStart
    \/ LoopOpenErr
    \/ \E stream \in RunStreams, failAt \in 0..MaxFailAt : LoopCountOk(stream, failAt)
    \/ \E stream \in RunStreams, failAt \in 0..MaxFailAt : LoopCountErr(stream, failAt)
    \/ RunFinish

Spec == Init /\ [][Next]_vars

\* the process is scheduled until it exits
FairSpec == Spec /\ WF_vars(Next)

----------------------------------------------------------------------------
(* count alone, one call of read_line at a time *)

\* an iteration of the loop of count whose read_line returns Ok
CountIter ==
    /\ c.status = "loop"
    /\ c' = CountBody(c)
    /\ UNCHANGED <<input, runVars>>

\* an iteration of the loop of count whose read_line returns Err
CountReadErr ==
    /\ c.status = "loop"
    /\ c' = CountErr(c)
    /\ UNCHANGED <<input, runVars>>

InitCount ==
    /\ input \in CountStreams
    /\ c = CountInit(input)
    /\ args = NoFlags
    /\ files = <<Dash>>
    /\ config = NoFlags
    /\ pc = "count"
    /\ idx = 0
    /\ total = ZeroInfo
    /\ stdout = <<>>
    /\ stderr = <<>>
    /\ result = "none"
    /\ hist = <<>>

NextCount == CountIter \/ CountReadErr

SpecCount == InitCount /\ [][NextCount]_vars

----------------------------------------------------------------------------
(* What the properties are stated with *)

Last(s) == s[Len(s)]

\* s ends with suf
EndsWith(s, suf) ==
    /\ Len(s) >= Len(suf)
    /\ SubSeq(s, Len(s) - Len(suf) + 1, Len(s)) = suf

\* sub occurs in s
Contains(s, sub) ==
    \E i \in 0..(Len(s) - Len(sub)) : SubSeq(s, i + 1, i + Len(sub)) = sub

\* the positions of stdout (of hist) of a kind (of an outcome)
LinesOf(kind) == {i \in 1..Len(stdout) : stdout[i].kind = kind}

Visited(outcome) == {i \in 1..Len(hist) : hist[i].outcome = outcome}

RECURSIVE SumOk(_, _)
\* the sum of the FileInfo of the first k files visited that opened and counted
SumOk(h, k) ==
    IF k = 0 THEN ZeroInfo
    ELSE LET s == SumOk(h, k - 1) IN
         IF h[k].outcome # "ok" THEN s
         ELSE FileInfo(s.num_lines + h[k].info.num_lines,
                       s.num_words + h[k].info.num_words,
                       s.num_bytes + h[k].info.num_bytes,
                       s.num_chars + h[k].info.num_chars)

\* the step of run that visits a filename with this outcome
VisitStep(outcome) ==
    /\ Len(hist') = Len(hist) + 1
    /\ hist'[Len(hist')].outcome = outcome

\* run has gone through its whole list when it returns
AllVisited == pc = "done" => Len(hist) = Len(files)

Running == pc \in {"run", "loop", "done"}

----------------------------------------------------------------------------
(* C1 *)

\* C1: the total line is printed only by the end of run, and then exactly once
\* and as the last line when more than one filename was given, and not at all
\* when there is one filename; whatever happened to each file.
C1_TotalLineOnce ==
    /\ pc # "done" => LinesOf("total") = {}
    /\ pc = "done" /\ Len(files) > 1 =>
          /\ LinesOf("total") = {Len(stdout)}
          /\ EndsWith(Last(stdout).text, TotalSuffix)
          /\ Len(hist) = Len(files)
    /\ pc = "done" /\ Len(files) = 1 => LinesOf("total") = {}

C1_Witness ==
    /\ pc = "done"
    /\ Len(files) > 1
    /\ Visited("open_err") # {}
    /\ Visited("count_err") # {}
    /\ LinesOf("total") = {Len(stdout)}

----------------------------------------------------------------------------
(* C2 *)

\* C2: after every iteration and at the end of run the four totals are the sums
\* of the counters of the files visited so far that opened and counted; the
\* total line shows these sums.
C2_TotalsAreSums ==
    /\ pc \in {"loop", "done"} => total = SumOk(hist, Len(hist))
    /\ pc = "done" /\ Len(files) > 1 => Last(stdout).vals = SumOk(hist, Len(hist))

C2_Witness ==
    /\ pc = "done"
    /\ \E i, j \in 1..Len(hist) :
          /\ hist[i].outcome = "ok"
          /\ hist[i].info.num_bytes > hist[i].info.num_chars
          /\ hist[j].outcome = "count_err"
          /\ hist[j].info.num_lines > 0
          /\ total = hist[i].info

----------------------------------------------------------------------------
(* C3 *)

\* C3: a filename that fails to open gets one line on the error stream that
\* contains the filename, no line on standard output, leaves the totals as they
\* were, and the loop goes on: run visits every filename, and every file that
\* opens and counts has its line.
C3_OpenFailureSkips ==
    /\ [][VisitStep("open_err") =>
            /\ Len(stderr') = Len(stderr) + 1
            /\ SubSeq(stderr', 1, Len(stderr)) = stderr
            /\ Contains(Last(stderr'), Last(hist').name)
            /\ stdout' = stdout
            /\ total' = total
            /\ pc' = "loop"
            /\ idx' = idx + 1]_vars
    /\ [](Cardinality(Visited("open_err")) = Len(stderr))
    /\ [](pc = "done" => Cardinality(LinesOf("file")) = Cardinality(Visited("ok")))
    /\ []AllVisited

C3_Witness ==
    /\ pc = "done"
    /\ \E i, j \in 1..Len(hist) :
          /\ i < j
          /\ hist[i].outcome = "open_err"
          /\ hist[j].outcome = "ok"
    /\ Len(stderr) = 1
    /\ LinesOf("file") = {1}

----------------------------------------------------------------------------
(* C4 *)

\* C4: a file that opens and whose count fails at some read_line, also after
\* lines were counted, gets no line on either stream and adds nothing to the
\* totals, and the loop goes on to the filenames after it.
C4_CountFailureSilent ==
    /\ [][VisitStep("count_err") =>
            /\ stdout' = stdout
            /\ stderr' = stderr
            /\ total' = total
            /\ pc' = "loop"
            /\ idx' = idx + 1]_vars
    /\ []AllVisited

C4_Witness ==
    /\ pc = "done"
    /\ \E i, j \in 1..Len(hist) :
          /\ i < j
          /\ hist[i].outcome = "count_err"
          /\ hist[i].info.num_lines > 0
          /\ hist[j].outcome = "ok"
          /\ hist[j].info.num_lines > 0
          /\ total = hist[j].info
    /\ stderr = <<>>
    /\ LinesOf("file") = {1}

----------------------------------------------------------------------------
(* C5 *)

\* the bytes of the UTF-8 encoding of a codepoint: 7, 11, 16 and 21 payload bits
EncodedBytes(ch) ==
    CASE ch < 2^7  -> 1
      [] ch >= 2^7  /\ ch < 2^11 -> 2
      [] ch >= 2^11 /\ ch < 2^16 -> 3
      [] OTHER -> 4

RECURSIVE StreamSum(_, _, _)
\* over the first k chunks of s: the codepoints (bytes = FALSE) or the bytes
StreamSum(s, k, bytes) ==
    IF k = 0 THEN 0
    ELSE StreamSum(s, k - 1, bytes)
           + s[k].n * (IF bytes THEN EncodedBytes(s[k].c) ELSE 1)

\* the lines of a stream: its line terminators, and one more for a last
\* fragment without a terminator
StreamLines(s) ==
    StreamSum(SelectSeq(s, LAMBDA ch : ch.c = LF), Len(SelectSeq(s, LAMBDA ch : ch.c = LF)), FALSE)
      + (IF s # <<>> /\ Last(s).c # LF THEN 1 ELSE 0)

\* the maximal runs of non-whitespace of a stream; a line terminator is
\* whitespace, so no run spans two lines and this is the sum over the lines
StreamWords(s) ==
    Cardinality({i \in 1..Len(s) :
                    /\ ~IsWhitespace(s[i].c)
                    /\ (i = 1 \/ IsWhitespace(s[i - 1].c))})

\* C5: when count returns Ok, num_lines is the number of lines of the stream (a
\* last fragment without terminator is one line), num_bytes its bytes, num_words
\* its maximal runs of non-whitespace and num_chars its codepoints; the text of
\* test_count gives 1, 10, 48, 48 and the empty stream gives zeros.
C5_CountIsExact ==
    c.status = "ok" =>
        /\ InfoOf(c) = FileInfo(StreamLines(input), StreamWords(input),
                                StreamSum(input, Len(input), TRUE),
                                StreamSum(input, Len(input), FALSE))
        /\ input = TestText => InfoOf(c) = FileInfo(1, 10, 48, 48)
        /\ input = <<>> => InfoOf(c) = ZeroInfo

C5_Witness ==
    /\ c.status = "ok"
    /\ input # <<>>
    /\ Last(input).c # LF
    /\ c.num_lines = 2
    /\ c.num_words = 2
    /\ c.num_bytes > c.num_chars

----------------------------------------------------------------------------
(* C6 *)

\* C6: in every state of the loop of count and in what count returns, the four
\* counters are at least 0 and num_bytes is at least num_chars.
C6_BytesAtLeastChars ==
    c.status \in {"loop", "ok", "err"} =>
        /\ c.num_lines >= 0
        /\ c.num_words >= 0
        /\ c.num_bytes >= 0
        /\ c.num_chars >= 0
        /\ c.num_bytes >= c.num_chars

C6_Witness ==
    /\ c.status = "loop"
    /\ c.file # <<>>
    /\ c.num_lines >= 1
    /\ c.num_bytes > c.num_chars
    /\ c.num_chars > 0

----------------------------------------------------------------------------
(* C7 *)

DefaultSet == [lines |-> TRUE, words |-> TRUE, bytes |-> TRUE, chars |-> FALSE]

\* C7: with no display flag on the command line, run works with lines, words
\* and bytes on and chars off, and every line it prints has these three fields
\* and no fourth; the flags are set before any file is visited and never change
\* after that.
C7_DefaultFlags ==
    /\ [](args = NoFlags /\ pc \in {"loop", "done"} =>
             /\ config = DefaultSet
             /\ \A i \in 1..Len(stdout) :
                   /\ \A k \in 1..3 : stdout[i].fields[k] # <<>>
                   /\ stdout[i].fields[4] = <<>>)
    /\ [](pc \in {"get_args", "run"} => hist = <<>> /\ stdout = <<>>)
    /\ [][(pc \in {"loop", "done"}) => config' = config]_vars

C7_Witness ==
    /\ args = NoFlags
    /\ pc = "done"
    /\ LinesOf("file") # {}
    /\ LinesOf("total") # {}
    /\ config = DefaultSet

----------------------------------------------------------------------------
(* C8 *)

\* the flags in the order of the fields
FlagOn(k) == <<config.lines, config.words, config.bytes, config.chars>>[k]

ValueOf(line, k) ==
    <<line.vals.num_lines, line.vals.num_words,
      line.vals.num_bytes, line.vals.num_chars>>[k]

\* what a printed line holds before its suffix
NumericPart(line) == SubSeq(line.text, 1, Len(line.text) - Len(line.suffix))

EnabledFlags == {k \in 1..4 : FlagOn(k)}

\* the number of decimal digits of a value below 10^9
DecimalLen(value) ==
    CHOOSE d \in 1..9 : value < 10^d /\ (d = 1 \/ value >= 10^(d - 1))

RECURSIVE DecimalValue(_)
\* the number that a text of decimal digits writes
DecimalValue(ds) ==
    IF ds = <<>> THEN 0
    ELSE 10 * DecimalValue(SubSeq(ds, 1, Len(ds) - 1)) + (Last(ds) - 48)

Max(a, b) == IF a >= b THEN a ELSE b

RECURSIVE SumWidths(_, _)
\* over the enabled fields among the first k: the width each value takes
SumWidths(line, k) ==
    IF k = 0 THEN 0
    ELSE SumWidths(line, k - 1)
           + (IF FlagOn(k) THEN Max(FieldWidth, DecimalLen(ValueOf(line, k))) ELSE 0)

\* C8 as claimed: every enabled field is exactly 8 characters, every disabled
\* one is empty, and the numeric part is 8 times the number of enabled flags.
C8_ExactlyEight ==
    \A i \in 1..Len(stdout) :
        /\ \A k \in 1..4 :
              Len(stdout[i].fields[k]) = (IF FlagOn(k) THEN FieldWidth ELSE 0)
        /\ Len(NumericPart(stdout[i])) = FieldWidth * Cardinality(EnabledFlags)

\* C8 amended: an enabled field is the decimal digits of its value after as
\* many spaces as bring it to 8 characters, so it is 8 characters for a value
\* below 10^8 and as long as its digits for a larger one; a disabled field is
\* empty; the numeric part is these fields side by side.
C8_AtLeastEight ==
    \A i \in 1..Len(stdout) :
        /\ \A k \in 1..4 :
              LET f == stdout[i].fields[k]
                  v == ValueOf(stdout[i], k)
                  d == DecimalLen(v)
              IN  IF FlagOn(k)
                  THEN /\ Len(f) = Max(FieldWidth, d)
                       /\ v < 10^FieldWidth => Len(f) = FieldWidth
                       /\ \A j \in 1..(Len(f) - d) : f[j] = SP
                       /\ \A j \in (Len(f) - d + 1)..Len(f) : f[j] \in 48..57
                       /\ DecimalValue(SubSeq(f, Len(f) - d + 1, Len(f))) = v
                  ELSE f = <<>>
        /\ Len(NumericPart(stdout[i])) = SumWidths(stdout[i], 4)
        /\ stdout[i].text = stdout[i].fields[1] \o stdout[i].fields[2]
                              \o stdout[i].fields[3] \o stdout[i].fields[4]
                              \o stdout[i].suffix

C8_Witness ==
    \E i \in 1..Len(stdout) :
        /\ Len(stdout[i].fields[1]) = FieldWidth
        /\ Len(stdout[i].fields[3]) = FieldWidth + 1
        /\ stdout[i].fields[4] = <<>>
        /\ stdout[i].vals.num_bytes >= 10^FieldWidth

----------------------------------------------------------------------------
(* C9 *)

\* C9: run never works with bytes and chars both on, also after its
\* defaulting; a command line that asks for both ends in a usage error with no
\* file opened, counted or printed.
C9_BytesCharsExclusive ==
    /\ Running => ~(config.bytes /\ config.chars)
    /\ args.bytes /\ args.chars =>
          /\ pc \in {"get_args", "usage_error"}
          /\ hist = <<>>
          /\ stdout = <<>>
          /\ stderr = <<>>

C9_Witness ==
    /\ pc = "usage_error"
    /\ args.bytes
    /\ args.chars
    /\ hist = <<>>

----------------------------------------------------------------------------
(* C10 *)

\* C10: run visits the filenames one by one in the order given, each once, it
\* ends, and it returns Ok whatever happened to the files.
C10_RunTerminatesOk ==
    /\ [](Running =>
             /\ Len(hist) <= Len(files)
             /\ \A i \in 1..Len(hist) : hist[i].name = files[i]
             /\ pc = "loop" => idx = Len(hist) + 1)
    /\ [](pc = "done" => result = "Ok" /\ Len(hist) = Len(files))
    /\ [](result # "Err")
    /\ ((pc = "run") ~> (pc = "done"))

C10_Witness ==
    /\ pc = "done"
    /\ result = "Ok"
    /\ Len(files) > 1
    /\ Visited("ok") = {}
    /\ Visited("open_err") # {}
    /\ Visited("count_err") # {}

====
